---- MODULE Spec2Model ----
(***************************************************************************)
(* Model of go.py: a script that prints and runs a hardcoded list of       *)
(* shell commands one after the other and exits with the status of the     *)
(* first one that fails.                                                   *)
(*                                                                         *)
(*   def call(command):                                                    *)
(*       print(command)                                                    *)
(*       r = subprocess.call(command, shell=True)                          *)
(*       if r != 0:                                                        *)
(*           sys.exit(r)                                                   *)
(*                                                                         *)
(* The interpreter is one sequential process (pc); every child process is  *)
(* an entry of the process table `children` that terminates on its own     *)
(* (ChildExit) with any return code subprocess.call can report.            *)
(***************************************************************************)
EXTENDS Integers, Sequences, FiniteSets

VARIABLES argv, pc, cmds, idx, out, children, r, ret, exitCode, log

vars == <<argv, pc, cmds, idx, out, children, r, ret, exitCode, log>>

----------------------------------------------------------------------------
(* Values *)

\* Python's None, and an int object.
None == [kind |-> "None"]
IntObj(v) == [kind |-> "int", val |-> v]

\* Largest exit status a child can pass to exit() and have reported (8 bits).
MaxExitStatus == 255
\* Largest signal number a wait status can carry (7 bits).
MaxSignal == 127
\* The operating system keeps the low 8 bits of the status given to exit().
ExitModulus == 256

\* Values subprocess.call can return: the exit status 0..255 of the child
\* shell, or -n when the child was killed by signal n.
ReturnCodes == ((0 - MaxSignal) .. (0 - 1)) \cup (0 .. MaxExitStatus)

\* Exit code the parent of the interpreter observes after sys.exit(v).
OsExitCode(v) == v % ExitModulus

\* Number of command-line arguments the runs are explored with.
MaxArgs == 1
ArgWords == {"ccdb", "main"}
Argvs == UNION {[1..n -> ArgWords] : n \in 0..MaxArgs}

\* The commands of main() and of ccdb().
MainCommands == <<"go install -i github.com/mohanson/acdb", "go test -v">>
CcdbCommands == <<"go install -i github.com/mohanson/acdb/ccdb/cmd/ccdb",
                  "go test -v ./ccdb">>
\* The three-command variant of the script (install, install tool, test).
ThreeCommands == <<"go install -i github.com/mohanson/acdb",
                   "go install -i github.com/mohanson/acdb/cmd/acdb",
                   "go test -v">>

Event(e, i) == [ev |-> e, i |-> i]

----------------------------------------------------------------------------
(* Initial state: the interpreter is about to run the script. *)

Init ==
    /\ argv \in Argvs
    /\ pc = "start"
    /\ cmds = <<>>
    /\ idx = 0
    /\ out = <<>>
    /\ children = <<>>
    /\ r = None
    /\ ret = None
    /\ exitCode = None
    /\ log = <<>>

----------------------------------------------------------------------------
(* The interpreter *)

\* A plausible bug: the entry point dispatches on the first argument.
ScriptStart_Dispatch ==
    /\ pc = "start"
    /\ cmds' = IF Len(argv) > 0 /\ argv[1] = "ccdb" THEN CcdbCommands
                                                     ELSE MainCommands
    /\ idx' = 1
    /\ pc' = "print"
    /\ UNCHANGED <<argv, out, children, r, ret, exitCode, log>>

\* if __name__ == '__main__': main()
ScriptStart ==
    /\ pc = "start"
    /\ cmds' = MainCommands
    /\ idx' = 1
    /\ pc' = "print"
    /\ UNCHANGED <<argv, out, children, r, ret, exitCode, log>>

\* The entry point of one of the script's variants.
VariantStart ==
    /\ pc = "start"
    /\ cmds' \in {MainCommands, ThreeCommands}
    /\ idx' = 1
    /\ pc' = "print"
    /\ UNCHANGED <<argv, out, children, r, ret, exitCode, log>>

\* A plausible bug: the command is not printed before it is run.
PrintCommand_Missing ==
    /\ pc = "print"
    /\ pc' = "spawn"
    /\ UNCHANGED <<argv, cmds, idx, out, children, r, ret, exitCode, log>>

\* call, line 6: print(command)
PrintCommand ==
    /\ pc = "print"
    /\ out' = Append(out, cmds[idx])
    /\ log' = Append(log, Event("print", idx))
    /\ pc' = "spawn"
    /\ UNCHANGED <<argv, cmds, idx, children, r, ret, exitCode>>

\* A plausible bug: the child is started and not waited for (Popen).
Spawn_NoWait ==
    /\ pc = "spawn"
    /\ children' = Append(children,
                     [cmd |-> cmds[idx], state |-> "running", status |-> None])
    /\ log' = Append(log, Event("spawn", idx))
    /\ r' = IntObj(0)
    /\ pc' = "check"
    /\ UNCHANGED <<argv, cmds, idx, out, ret, exitCode>>

\* call, line 7: subprocess.call starts the child shell ...
Spawn ==
    /\ pc = "spawn"
    /\ children' = Append(children,
                     [cmd |-> cmds[idx], state |-> "running", status |-> None])
    /\ log' = Append(log, Event("spawn", idx))
    /\ pc' = "wait"
    /\ UNCHANGED <<argv, cmds, idx, out, r, ret, exitCode>>

\* ... and blocks until it has terminated, then reaps it and returns its
\* return code, which is assigned to r.
Wait ==
    /\ pc = "wait"
    /\ children[Len(children)].state = "exited"
    /\ r' = children[Len(children)].status
    /\ children' = [children EXCEPT ![Len(children)].state = "reaped"]
    /\ log' = Append(log, Event("reap", idx))
    /\ pc' = "check"
    /\ UNCHANGED <<argv, cmds, idx, out, ret, exitCode>>

\* Plausible bugs in the failure branch.
\* The failure is ignored and the next command is run.
SysExit_Ignore ==
    /\ pc = "check"
    /\ r.val # 0
    /\ ret' = None
    /\ idx' = idx + 1
    /\ pc' = IF idx < Len(cmds) THEN "print" ELSE "finish"
    /\ UNCHANGED <<argv, cmds, out, children, r, exitCode, log>>

\* The failing command is run again.
SysExit_Retry ==
    /\ pc = "check"
    /\ r.val # 0
    /\ pc' = "print"
    /\ UNCHANGED <<argv, cmds, idx, out, children, r, ret, exitCode, log>>

\* sys.exit(1) whatever the status was.
SysExit_One ==
    /\ pc = "check"
    /\ r.val # 0
    /\ exitCode' = IntObj(OsExitCode(1))
    /\ pc' = "exited"
    /\ UNCHANGED <<argv, cmds, idx, out, children, r, ret, log>>

\* sys.exit(r > 0)
SysExit_Bool ==
    /\ pc = "check"
    /\ r.val # 0
    /\ exitCode' = IntObj(OsExitCode(IF r.val > 0 THEN 1 ELSE 0))
    /\ pc' = "exited"
    /\ UNCHANGED <<argv, cmds, idx, out, children, r, ret, log>>

\* A diagnostic line is printed before exiting.
SysExit_Diagnostic ==
    /\ pc = "check"
    /\ r.val # 0
    /\ out' = Append(out, "command failed")
    /\ exitCode' = IntObj(OsExitCode(r.val))
    /\ pc' = "exited"
    /\ UNCHANGED <<argv, cmds, idx, children, r, ret, log>>

\* call, lines 8-9: if r != 0: sys.exit(r).  SystemExit is caught nowhere,
\* so the interpreter exits; nothing is printed for an int argument.
SysExit ==
    /\ pc = "check"
    /\ r.val # 0
    /\ exitCode' = IntObj(OsExitCode(r.val))
    /\ pc' = "exited"
    /\ UNCHANGED <<argv, cmds, idx, out, children, r, ret, log>>

\* Plausible bugs in the success branch.
\* call ends with `return r`.
Return_R ==
    /\ pc = "check"
    /\ r.val = 0
    /\ ret' = r
    /\ idx' = idx + 1
    /\ pc' = IF idx < Len(cmds) THEN "print" ELSE "finish"
    /\ UNCHANGED <<argv, cmds, out, children, r, exitCode, log>>

\* The command after a successful one is skipped.
Return_Skip ==
    /\ pc = "check"
    /\ r.val = 0
    /\ ret' = None
    /\ idx' = idx + 2
    /\ pc' = IF idx + 1 < Len(cmds) THEN "print" ELSE "finish"
    /\ UNCHANGED <<argv, cmds, out, children, r, exitCode, log>>

\* call, line 8 with r == 0: the function body ends without a return
\* statement, so call returns None; main goes on with its next statement.
Return ==
    /\ pc = "check"
    /\ r.val = 0
    /\ ret' = None
    /\ idx' = idx + 1
    /\ pc' = IF idx < Len(cmds) THEN "print" ELSE "finish"
    /\ UNCHANGED <<argv, cmds, out, children, r, exitCode, log>>

\* main() returns and the script ends: the interpreter exits with status 0.
Finish ==
    /\ pc = "finish"
    /\ exitCode' = IntObj(OsExitCode(0))
    /\ pc' = "done"
    /\ UNCHANGED <<argv, cmds, idx, out, children, r, ret, log>>

----------------------------------------------------------------------------
(* The child processes *)

\* Child k terminates: it exits with a status, or is killed by a signal.
ChildExit(k) ==
    /\ children[k].state = "running"
    /\ \E s \in ReturnCodes :
         children' = [children EXCEPT ![k].state = "exited",
                                      ![k].status = IntObj(s)]
    /\ log' = Append(log, Event("exit", k))
    /\ UNCHANGED <<argv, pc, cmds, idx, out, r, ret, exitCode>>

ChildStep == \E k \in 1..Len(children) : ChildExit(k)

----------------------------------------------------------------------------
(* Specifications *)

Call == PrintCommand \/ Spawn \/ Wait \/ SysExit \/ Return

Next == ScriptStart \/ Call \/ Finish \/ ChildStep

Spec == Init /\ [][Next]_vars

\* The interpreter keeps running while it can, and every child terminates.
FairSpec == Spec /\ WF_vars(ScriptStart \/ Call \/ Finish) /\ WF_vars(ChildStep)

\* The same runner under each command list of the script's variants.
NextVariants == VariantStart \/ Call \/ Finish \/ ChildStep

SpecVariants == Init /\ [][NextVariants]_vars

----------------------------------------------------------------------------
(* Vocabulary of the properties *)

Terminated == pc \in {"exited", "done"}

Children == 1..Len(children)

Running == {k \in Children : children[k].state = "running"}

\* Child k has terminated with a non-zero return code.
Failed(k) == children[k].state # "running" /\ children[k].status.val # 0

Succeeded(k) == children[k].state # "running" /\ children[k].status.val = 0

FirstFailed == CHOOSE k \in Children : Failed(k) /\ \A j \in 1..(k-1) : ~Failed(j)

\* The texts of the commands started so far, in the order they were started.
ChildCmds == [k \in Children |-> children[k].cmd]

IsPrefix(s, t) == Len(s) <= Len(t) /\ \A k \in 1..Len(s) : s[k] = t[k]

InSeq(x, s) == \E k \in 1..Len(s) : s[k] = x

RECURSIVE ExpectedLog(_)
\* The events of a run of n commands that all succeed.
ExpectedLog(n) ==
    IF n = 0 THEN <<>>
    ELSE ExpectedLog(n - 1) \o <<Event("print", n), Event("spawn", n),
                                 Event("exit", n), Event("reap", n)>>

----------------------------------------------------------------------------
(* Properties *)

\* C1: once a child process has exited with a non-zero status, no step ever
\* spawns a child process again (neither the next command nor a retry).
C1_NoSpawnAfterFailure ==
    [][(\E k \in Children : Failed(k)) => Len(children') = Len(children)]_vars

C1_Witness ==
    /\ pc = "exited"
    /\ Len(cmds) = 2
    /\ Len(children) = 1
    /\ Failed(1)

\* C2 as stated: the exit code of a terminated run is 0 iff every command of
\* the list exited with status 0, and otherwise equals the status of the
\* first command that failed.
C2_Original ==
    Terminated =>
      /\ exitCode.val = 0 <=>
           (Len(children) = Len(cmds) /\ \A k \in Children : Succeeded(k))
      /\ (\E k \in Children : Failed(k)) =>
           exitCode.val = children[FirstFailed].status.val

\* C2 as amended: the exit code of a terminated run is 0 iff every command of
\* the list exited with status 0, and otherwise is the return code s of the
\* first failing command reduced modulo 256: s itself when the child exited
\* with status s in 1..255, and 256 - n when it was killed by signal n.
C2_ExitCode ==
    Terminated =>
      /\ exitCode.val = 0 <=>
           (Len(children) = Len(cmds) /\ \A k \in Children : Succeeded(k))
      /\ (\E k \in Children : Failed(k)) =>
           LET s == children[FirstFailed].status.val
           IN  exitCode.val = IF s > 0 THEN s ELSE 256 + s

C2_Witness ==
    /\ pc = "exited"
    /\ Len(children) = 2
    /\ Succeeded(1)
    /\ Failed(2)
    /\ children[2].status.val < 0
    /\ exitCode.val = 256 + children[2].status.val

\* C3 as stated: when the child exited with status 0, call returns the int 0
\* to its caller and execution proceeds to the next command.
C3_Original ==
    [][(pc = "check" /\ r.val = 0) =>
         /\ ret' = IntObj(0)
         /\ idx' = idx + 1
         /\ idx < Len(cmds) => pc' = "print"]_vars

\* C3 as amended: when the child exited with status 0, call returns None to
\* its caller (it has no return statement) and execution proceeds to the next
\* command of the list, or to the end of main after the last one.
C3_ReturnsNone ==
    [][(pc = "check" /\ r.val = 0) =>
         /\ ret' = None
         /\ idx' = idx + 1
         /\ idx < Len(cmds) => pc' = "print"
         /\ idx = Len(cmds) => pc' = "finish"
         /\ UNCHANGED <<out, children, exitCode>>]_vars

C3_Witness ==
    /\ pc = "print"
    /\ idx = 2
    /\ Succeeded(1)
    /\ ret = None
    /\ Len(out) = 1

C5_AllSucceed ==
    (Terminated /\ \A k \in Children : Succeeded(k)) =>
      /\ pc = "done"
      /\ exitCode = IntObj(0)
      /\ out = cmds
      /\ ChildCmds = cmds
      /\ log = ExpectedLog(Len(cmds))

C5_Witness ==
    /\ pc = "done"
    /\ cmds = ThreeCommands
    /\ Len(children) = 3
    /\ \A k \in Children : Succeeded(k)

\* C6: at most one child process is running in any state, and while a child
\* is running the runner takes no step: it prints nothing, spawns nothing and
\* does not move.
C6_Synchronous ==
    /\ [](Cardinality(Running) <= 1)
    /\ [][Running # {} =>
            /\ pc' = pc
            /\ out' = out
            /\ Len(children') = Len(children)
            /\ exitCode' = exitCode]_vars

C6_Witness ==
    /\ pc = "wait"
    /\ Running = {2}

\* C7: the output is exactly the texts of the commands started, in order
\* (plus the command printed and about to be started); after a failure its
\* last line is the failing command's text.
C7_OnlyCommandTexts ==
    /\ out = ChildCmds \o (IF pc = "spawn" THEN <<cmds[idx]>> ELSE <<>>)
    /\ pc = "exited" =>
         /\ Failed(Len(children))
         /\ Len(out) = Len(children)
         /\ out[Len(out)] = children[FirstFailed].cmd

C7_Witness ==
    /\ pc = "exited"
    /\ Len(out) = 2
    /\ Failed(2)
    /\ out[2] = MainCommands[2]

\* C8: whatever the arguments, the script runs main's list: the output and
\* the commands spawned are prefixes of it (the whole of it when the run
\* succeeds), and no command of ccdb() is printed or spawned.
C8_MainOnly ==
    /\ pc # "start" => cmds = MainCommands
    /\ IsPrefix(out, MainCommands)
    /\ IsPrefix(ChildCmds, MainCommands)
    /\ pc = "done" => out = MainCommands /\ ChildCmds = MainCommands
    /\ \A k \in 1..Len(CcdbCommands) :
         ~InSeq(CcdbCommands[k], out) /\ ~InSeq(CcdbCommands[k], ChildCmds)

C8_Witness ==
    /\ pc = "done"
    /\ Len(argv) > 0
    /\ argv[1] = "ccdb"
    /\ out = MainCommands

\* C9: when every child eventually exits the program eventually terminates;
\* it never spawns more children than the list has commands (two for main),
\* and it has not terminated while a child is still running.
C9_Terminates ==
    /\ <>Terminated
    /\ [](pc # "start" => Len(children) <= Len(cmds))
    /\ [](Len(children) <= Len(MainCommands))
    /\ [](Terminated => Running = {})

C9_Witness ==
    /\ Terminated
    /\ Len(children) = Len(cmds)
    /\ Running = {}
    /\ Failed(Len(children))

\* C10: whenever a command failed, the exit code of the terminated program is
\* in 1..255, never 0, also for a negative return code; and reduction modulo
\* 256 maps every value of -255..-1 and 1..255 to a non-zero code.
C10_FailureNonZero ==
    /\ (Terminated /\ \E k \in Children : Failed(k)) =>
         exitCode.val \in 1..MaxExitStatus
    /\ \A v \in ((0 - 255)..(0 - 1)) \cup (1..255) : OsExitCode(v) # 0

C10_Witness ==
    /\ pc = "exited"
    /\ r = IntObj(0 - 9)
    /\ exitCode = IntObj(247)

====
